---------------------------- MODULE Spec2Model ----------------------------
(***************************************************************************)
(* A model of muscle.py (tos-1/MUSCLE): the solver's constructor and the   *)
(* control flow of generate(), the primordial field generator dk(), the    *)
(* collapse schemes sc() and muscle(), the blending of alpt(), the         *)
(* Poisson/gradient solver invdiv() and the position mapper get_pos().     *)
(*                                                                         *)
(* Each component has its own specification over the module's variables;   *)
(* the variables of the other components stay at their idle values.        *)
(*   Spec         __init__ and generate(): validation, order of the calls  *)
(*   SpecCollapse sc() and muscle() on a real-space potential              *)
(*   SpecAlpt     alpt(): the Gaussian blending per wavevector             *)
(*   SpecDk       dk(): the Hermitian reflections of the two real planes   *)
(*   SpecInvdiv   invdiv(): the three gradient components and the check    *)
(*   SpecPos      get_pos(): lattice plus displacement, wrapped            *)
(***************************************************************************)
EXTENDS Integers, Sequences, FiniteSets, TLC

VARIABLES
    \* __init__ / generate()
    cfg,        \* the constructor's arguments
    pc,         \* position in __init__ / generate()
    err,        \* the exception that ended the run, or "none"
    nfft,       \* Fourier transforms executed so far
    kgrid,      \* TRUE once getkgrid() has run
    cosmo,      \* TRUE once the cosmology snapshot (D_i, D_f, growth, f1, f2) is set
    todo,       \* the calls disp_field() still has to make, in order
    \* sc() / muscle()
    cscheme,    \* "sc" or "muscle"
    cng,        \* number of cells of the (flattened) real-space grid
    psi0,       \* the linear potential as the inverse transform returned it
    psi,        \* the potential psi_za / psi: cell -> numerator, in 1/Unit
    den,        \* common denominator of psi (1 until the shift divides)
    cc,         \* the collapse condition, scaled by 3*Unit: cell -> integer
    iscale,     \* the loop variable i of muscle()
    cpc,        \* position in sc() / muscle()
    seen,       \* the smoothed conditions cc_R computed so far, in order
    ssum,       \* N.sum(psi.flatten()) as the shift read it
    \* dk()
    seed,       \* self.seed
    exact_pk,   \* self.exact_pk
    dkng,       \* self.ng
    dkv,        \* the array dk: <<i, j, l>> -> [re, im]
    dpc,        \* position in dk()
    written,    \* the elements the reflections have assigned so far
    stale,      \* TRUE once a reflection has read an element of written
    \* alpt()
    acfg,       \* smallscheme, sigmaalpt (in units of 1/kmin), ng, growth, seed
    psi_k_small,\* the small-scale potential in Fourier space
    psi_k_alpt, \* the pair of large-scale potentials, then the blended pair
    apc,        \* position in alpt()
    \* invdiv()
    ing,        \* self.ng
    psi_k,      \* the source field: <<i, j, l>> -> complex of floats
    G,          \* the Green's function array
    phic,       \* <<phixc, phiyc, phizc>>
    ipc,        \* position in invdiv()
    \* get_pos()
    png,        \* self.ng
    disp,       \* the displacement along one axis: lattice index -> float
    apos,       \* the array a
    ppc         \* position in get_pos()

runVars == <<cfg, pc, err, nfft, kgrid, cosmo, todo>>
collVars == <<cscheme, cng, psi0, psi, den, cc, iscale, cpc, seen, ssum>>

dkVars == <<seed, exact_pk, dkng, dkv, dpc, written, stale>>

alptVars == <<acfg, psi_k_small, psi_k_alpt, apc>>

invVars == <<ing, psi_k, G, phic, ipc>>
posVars == <<png, disp, apos, ppc>>

vars == <<runVars, collVars, dkVars, alptVars, invVars, posVars>>

notRun == <<collVars, dkVars, alptVars, invVars, posVars>>
notColl == <<runVars, dkVars, alptVars, invVars, posVars>>
notDk == <<runVars, collVars, alptVars, invVars, posVars>>
notAlpt == <<runVars, collVars, dkVars, invVars, posVars>>
notInv == <<runVars, collVars, dkVars, alptVars, posVars>>
notPos == <<runVars, collVars, dkVars, alptVars, invVars>>

---------------------------------------------------------------------------
(* Bounds of the model *)

\* largest redshift value drawn for z_pk and redshift
MaxZ == 1
\* largest number of threads requested / cpus available
MaxThreads == 2
\* ng is even: ng = 2*h for h in 1..MaxHalfNg
MaxHalfNg == 2
\* the seeds drawn are 1..MaxSeed
MaxSeed == 8
\* sigmaalpt * kmin is drawn in 0..MaxSigma
MaxSigma == 4
\* growth = D_f / D_i is drawn in 1..MaxGrowth
MaxGrowth == 2
\* the largest finite value of the model's floats in invdiv()
FMax == 1000
\* bits of the significand of the model's floats in get_pos()
Mantissa == 3
\* displacements are drawn among the floats of magnitude <= MaxDisp
MaxDisp == 80
\* a smoothed potential lowers one cell and raises another by SmoothVal
SmoothVal == 8
\* non-collapsed input values are (r*r - 9)/2 for the odd r up to MaxRoot
MaxRoot == 11

---------------------------------------------------------------------------
(* Helpers *)

GridSizes == {2 * h : h \in 1..MaxHalfNg}

RECURSIVE FloorLog2(_)
\* int(N.log(ng) / N.log(2.)) for ng >= 1
FloorLog2(n) == IF n < 2 THEN 0 ELSE 1 + FloorLog2(n \div 2)

RECURSIVE Pow2(_)
\* 2**n
Pow2(n) == IF n = 0 THEN 1 ELSE 2 * Pow2(n - 1)

\* number of possible iterations of the scale loop of muscle()
twofolds(ng) == FloorLog2(ng)

---------------------------------------------------------------------------
(* __init__ and generate() *)

None == "None"
Schemes == {"zeld", "2lpt", "sc", "muscle", "foo"}
SmallSchemes == {None, "sc", "muscle", "foo"}
Cosmologies == {"ehu", "cls", "foo"}

Configs ==
    [scheme : Schemes, smallscheme : SmallSchemes, makeic : BOOLEAN,
     z_pk : 0..MaxZ, redshift : 0..MaxZ, threads : 1..MaxThreads,
     cpus : 1..MaxThreads, cosmology : Cosmologies, ng : GridSizes,
     nan : BOOLEAN]

CollIdle ==
    /\ cscheme = "idle" /\ cng = 0 /\ psi0 = <<>> /\ psi = <<>> /\ den = 1 /\ cc = <<>>
    /\ iscale = 0 /\ cpc = "idle" /\ seen = <<>> /\ ssum = 0

DkIdle ==
    /\ seed = 0 /\ exact_pk = TRUE /\ dkng = 0 /\ dkv = <<>> /\ dpc = "idle"
    /\ written = {} /\ stale = FALSE

InvIdle ==
    /\ ing = 0 /\ psi_k = <<>> /\ G = <<>> /\ phic = <<>> /\ ipc = "idle"

PosIdle ==
    /\ png = 0 /\ disp = <<>> /\ apos = <<>> /\ ppc = "idle"

AlptIdle ==
    /\ acfg = <<>> /\ psi_k_small = <<>> /\ psi_k_alpt = <<>> /\ apc = "idle"

RunIdle ==
    /\ cfg = <<>> /\ pc = "idle" /\ err = "none" /\ nfft = 0
    /\ kgrid = FALSE /\ cosmo = FALSE /\ todo = <<>>

RunInit ==
    /\ CollIdle /\ DkIdle /\ AlptIdle /\ InvIdle /\ PosIdle
    /\ cfg \in Configs
    /\ pc = "init_makeic"
    /\ err = "none"
    /\ nfft = 0
    /\ kgrid = FALSE
    /\ cosmo = FALSE
    /\ todo = <<>>

Raise(e) == pc' = "failed" /\ err' = e

\* raise ValueError("for initial conditions you need z_pk=redshift")
IcError == "ValueError: for initial conditions you need z_pk=redshift"

\* the mutant of IcMismatch: the redshifts are compared whether or not makeic is set
IcMismatchAlways(c) == c.z_pk # c.redshift

\* if self.makeic: if not z_pk == redshift: raise
IcMismatch(c) == c.makeic /\ c.z_pk # c.redshift

init_makeic ==
    /\ pc = "init_makeic"
    /\ IF IcMismatch(cfg)
         THEN Raise(IcError)
         ELSE pc' = "init_threads" /\ err' = err
    /\ UNCHANGED <<cfg, nfft, kgrid, cosmo, todo>> /\ UNCHANGED notRun

init_threads ==
    /\ pc = "init_threads"
    /\ IF ~(cfg.cpus >= cfg.threads)
         THEN Raise("ValueError: requested a number of threads > than available cpus")
         ELSE pc' = "init_getkgrid" /\ err' = err
    /\ UNCHANGED <<cfg, nfft, kgrid, cosmo, todo>> /\ UNCHANGED notRun

init_getkgrid ==
    /\ pc = "init_getkgrid"
    /\ kgrid' = TRUE
    /\ pc' = "init_cosmology"
    /\ UNCHANGED <<cfg, err, nfft, cosmo, todo>> /\ UNCHANGED notRun

init_cosmology ==
    /\ pc = "init_cosmology"
    /\ IF cfg.cosmology \in {"cls", "ehu"}
         THEN pc' = "generate" /\ cosmo' = TRUE /\ err' = err
         ELSE Raise("ValueError: select the cosmology correctly") /\ cosmo' = cosmo
    /\ UNCHANGED <<cfg, nfft, kgrid, todo>> /\ UNCHANGED notRun

\* generate(): dk = self.dk() draws the random field; no transform is run
generate_dk ==
    /\ pc = "generate"
    /\ pc' = "disp_field"
    /\ UNCHANGED <<cfg, err, nfft, kgrid, cosmo, todo>> /\ UNCHANGED notRun

\* the calls of one branch of disp_field(), in the order the code makes them
Calls(c) ==
    IF c.smallscheme = None
      THEN CASE c.scheme = "zeld"   -> <<"invdiv">>
             [] c.scheme = "sc"     -> <<"sc", "fft", "invdiv">>
             [] c.scheme = "muscle" -> <<"muscle", "fft", "invdiv">>
             [] c.scheme = "2lpt"   ->
                    IF ~c.makeic THEN <<"twolpt", "fft", "invdiv">>
                                 ELSE <<"twolpt", "fft", "invdiv", "invdiv">>
             [] OTHER               -> <<"assert0">>
      ELSE CASE c.smallscheme = "sc"     ->
                    <<"sc", "fft", "twolpt", "fft", "invdiv", "invdiv">>
             [] c.smallscheme = "muscle" ->
                    <<"muscle", "fft", "twolpt", "fft", "invdiv", "invdiv">>
             [] OTHER                    -> <<"assert0">>

disp_field ==
    /\ pc = "disp_field"
    /\ todo' = Calls(cfg)
    /\ pc' = "call"
    /\ UNCHANGED <<cfg, err, nfft, kgrid, cosmo>> /\ UNCHANGED notRun

\* print(...); assert 0
call_assert0 ==
    /\ pc = "call" /\ todo # <<>> /\ Head(todo) = "assert0"
    /\ Raise("AssertionError")
    /\ UNCHANGED <<cfg, nfft, kgrid, cosmo, todo>> /\ UNCHANGED notRun

\* sc(): one backward transform (ifft_za)
call_sc ==
    /\ pc = "call" /\ todo # <<>> /\ Head(todo) = "sc"
    /\ nfft' = nfft + 1
    /\ todo' = Tail(todo)
    /\ UNCHANGED <<cfg, pc, err, kgrid, cosmo>> /\ UNCHANGED notRun

\* muscle(): irfftn of psi_k, then one irfftn per scale entered (the scale
\* that takes the early exit included)
call_muscle ==
    /\ pc = "call" /\ todo # <<>> /\ Head(todo) = "muscle"
    /\ \E scales \in 1..twofolds(cfg.ng) : nfft' = nfft + 1 + scales
    /\ todo' = Tail(todo)
    /\ UNCHANGED <<cfg, pc, err, kgrid, cosmo>> /\ UNCHANGED notRun

\* twolpt(): six backward transforms
call_twolpt ==
    /\ pc = "call" /\ todo # <<>> /\ Head(todo) = "twolpt"
    /\ nfft' = nfft + 6
    /\ todo' = Tail(todo)
    /\ UNCHANGED <<cfg, pc, err, kgrid, cosmo>> /\ UNCHANGED notRun

\* a forward transform of a real-space potential (fft_sc, fft_msc, fft_2lpt, N.fft.rfftn)
call_fft ==
    /\ pc = "call" /\ todo # <<>> /\ Head(todo) = "fft"
    /\ nfft' = nfft + 1
    /\ todo' = Tail(todo)
    /\ UNCHANGED <<cfg, pc, err, kgrid, cosmo>> /\ UNCHANGED notRun

\* invdiv(): assert 0 when phixc holds a NaN, else three backward transforms
call_invdiv ==
    /\ pc = "call" /\ todo # <<>> /\ Head(todo) = "invdiv"
    /\ IF cfg.nan
         THEN Raise("AssertionError") /\ UNCHANGED <<nfft, todo>>
         ELSE nfft' = nfft + 3 /\ todo' = Tail(todo) /\ UNCHANGED <<pc, err>>
    /\ UNCHANGED <<cfg, kgrid, cosmo>> /\ UNCHANGED notRun

\* pos = self.get_pos(disp_field); return pos
generate_get_pos ==
    /\ pc = "call" /\ todo = <<>>
    /\ pc' = "done"
    /\ UNCHANGED <<cfg, err, nfft, kgrid, cosmo, todo>> /\ UNCHANGED notRun

RunNext ==
    \/ init_makeic \/ init_threads \/ init_getkgrid \/ init_cosmology
    \/ generate_dk \/ disp_field
    \/ call_assert0 \/ call_sc \/ call_muscle \/ call_twolpt \/ call_fft
    \/ call_invdiv \/ generate_get_pos

---------------------------------------------------------------------------
(* sc() and muscle()                                                       *)
(*                                                                         *)
(* The potential is held in units of 1/Unit, exactly: psi[c]/den is the    *)
(* value of cell c in those units.  The collapse condition                 *)
(* cc = 1 + psi*2/3 is held scaled by 3*Unit, which keeps its sign.  The   *)
(* inputs are the zero-sum fields (dk.flat[0] = 0) over values on which    *)
(* the square root is rational, so that the model computes exactly what    *)
(* the code computes in float32.                                           *)

Unit == 3

Cells(n) == 1..n

RECURSIVE SumOver(_, _)
\* N.sum(f.flatten()) over the cells 1..n
SumOver(f, n) == IF n = 0 THEN 0 ELSE f[n] + SumOver(f, n - 1)

Min2(a, b) == IF a <= b THEN a ELSE b

\* floor of the square root
ISqrt(n) == CHOOSE r \in 0..(3 * Unit * (MaxRoot + 1)) : r * r <= n /\ (r + 1) * (r + 1) > n

\* cc = 1. + psi * 2. / 3., scaled by 3*Unit
CollapseCondition(p) == 3 * Unit + 2 * p

\* 3. * (N.sqrt(1. + psi * 2. / 3.) - 1.)
SqrtMap(p) == ISqrt(3 * Unit * CollapseCondition(p)) - 3 * Unit

\* the value of a collapsed cell: psi[wc] = -3.
Collapsed == -3 * Unit

\* the mutant of Clip: the test of the collapse condition is inverted
ClipInverted(f, c, n) ==
    [x \in Cells(n) |-> IF c[x] > 0 THEN Collapsed ELSE f[x]]

\* psi[wnc] = 3. * (N.sqrt(1. + psi[wnc] * 2. / 3.) - 1.); psi[wc] = -3.
Clip(f, c, n) ==
    [x \in Cells(n) |-> IF c[x] > 0 THEN SqrtMap(f[x]) ELSE Collapsed]

\* wnc = N.where(cc > 0.)
Wnc(c, n) == {x \in Cells(n) : c[x] > 0}

\* the mutant of Shift: the collapsed cells are shifted too
ShiftAll(f, c, n) ==
    LET wnc == Wnc(c, n)
        s == SumOver(f, n)
    IN  IF wnc = {}
          THEN [num |-> f, den |-> 1, sum |-> s]
          ELSE [num |-> [x \in Cells(n) |-> Cardinality(wnc) * f[x] - s],
                den |-> Cardinality(wnc), sum |-> s]

\* psi[wnc] -= N.sum(psi.flatten()) / len(psi[wnc].flatten())
\* (with no non-collapsed cell the quotient is not finite and is assigned to
\* no cell)
Shift(f, c, n) ==
    LET wnc == Wnc(c, n)
        s == SumOver(f, n)
    IN  IF wnc = {}
          THEN [num |-> f, den |-> 1, sum |-> s]
          ELSE [num |-> [x \in Cells(n) |->
                           IF x \in wnc THEN Cardinality(wnc) * f[x] - s
                                        ELSE Cardinality(wnc) * f[x]],
                den |-> Cardinality(wnc), sum |-> s]

\* the mutant of UpdateCc: only the cells already collapsed are updated
UpdateCcOnlyCollapsed(c, ccR, n) ==
    [x \in Cells(n) |-> IF c[x] <= 0 THEN Min2(ccR[x], c[x]) ELSE c[x]]

\* w = (N.where(cc_R <= 0.) or N.where(cc <= 0.)): the first tuple is never
\* empty as a tuple, so w is N.where(cc_R <= 0.);
\* cc[w] = N.minimum(cc_R[w], cc[w])
UpdateCc(c, ccR, n) ==
    [x \in Cells(n) |-> IF ccR[x] <= 0 THEN Min2(ccR[x], c[x]) ELSE c[x]]

\* input values of a non-collapsed cell: the square root is rational
NcVals == {(r * r - 3 * Unit) \div 2 : r \in {q \in 1..MaxRoot : q % 2 = 1}}
\* input values of a collapsed cell
CVals == {-5, -8, -16}
ValidVal(p) == IF CollapseCondition(p) > 0 THEN p \in NcVals
               ELSE p >= -(MaxRoot * MaxRoot)

\* the zero-sum fields on n cells whose first n - 1 values are in vals
Fields(n, vals) ==
    { [x \in Cells(n) |-> IF x < n THEN g[x] ELSE -SumOver(g, n - 1)] :
        g \in {h \in [Cells(n - 1) -> vals] : ValidVal(-SumOver(h, n - 1))} }

\* the values sc() is run on, and those muscle() is run on
ScVals == NcVals \cup CVals
MuscleVals == {-5, -4, 0, 8}

\* the smoothed potentials N.fft.irfftn(Wk * psi_k): zero-sum as well
\* (Wk.flat[0] = 1 and the zero mode is zero); here the zero field and the
\* fields with one cell lowered and one cell raised
SmoothFields(n) ==
    {[x \in Cells(n) |-> 0]} \cup
    {[x \in Cells(n) |->
        IF x = w[1] THEN -SmoothVal ELSE IF x = w[2] THEN SmoothVal ELSE 0] :
        w \in {v \in Cells(n) \X Cells(n) : v[1] # v[2]}}

CollInit ==
    /\ RunIdle /\ DkIdle /\ AlptIdle /\ InvIdle /\ PosIdle
    /\ cscheme \in {"sc", "muscle"}
    /\ cng \in GridSizes
    /\ psi0 \in Fields(cng, IF cscheme = "sc" THEN ScVals ELSE MuscleVals)
    /\ psi = psi0
    /\ den = 1
    /\ cc = [x \in Cells(cng) |-> 0]
    /\ iscale = 0
    /\ cpc = "cc"
    /\ seen = <<>>
    /\ ssum = 0

\* sc(): cc = 1. + psi_za * 2. / 3.
sc_cc ==
    /\ cscheme = "sc" /\ cpc = "cc"
    /\ cc' = [x \in Cells(cng) |-> CollapseCondition(psi[x])]
    /\ cpc' = "clip"
    /\ UNCHANGED <<cscheme, cng, psi0, psi, den, iscale, seen, ssum>>
    /\ UNCHANGED notColl

sc_clip ==
    /\ cscheme = "sc" /\ cpc = "clip"
    /\ psi' = Clip(psi, cc, cng)
    /\ cpc' = "shift"
    /\ UNCHANGED <<cscheme, cng, psi0, den, cc, iscale, seen, ssum>>
    /\ UNCHANGED notColl

sc_shift ==
    /\ cscheme = "sc" /\ cpc = "shift"
    /\ LET r == Shift(psi, cc, cng)
       IN  psi' = r.num /\ den' = r.den /\ ssum' = r.sum
    /\ cpc' = "done"
    /\ UNCHANGED <<cscheme, cng, psi0, cc, iscale, seen>>
    /\ UNCHANGED notColl

\* muscle(): twofolds = ...; cc = 1 + psi * 2. / 3.
muscle_cc ==
    /\ cscheme = "muscle" /\ cpc = "cc"
    /\ cc' = [x \in Cells(cng) |-> CollapseCondition(psi[x])]
    /\ iscale' = 0
    /\ cpc' = "loop"
    /\ UNCHANGED <<cscheme, cng, psi0, psi, den, seen, ssum>>
    /\ UNCHANGED notColl

\* one pass of "for i in N.arange(starter, twofolds)": the smoothed
\* condition cc_R of scale i, then the break or the update of cc
muscle_scale ==
    /\ cscheme = "muscle" /\ cpc = "loop" /\ iscale < twofolds(cng)
    /\ \E psiR \in SmoothFields(cng) :
         LET ccR == [x \in Cells(cng) |-> CollapseCondition(psiR[x])]
         IN  /\ seen' = Append(seen, ccR)
             /\ IF \A x \in Cells(cng) : ccR[x] > 0
                  THEN cpc' = "clip" /\ UNCHANGED <<cc, iscale>>
                  ELSE /\ cc' = UpdateCc(cc, ccR, cng)
                       /\ iscale' = iscale + 1
                       /\ cpc' = "loop"
    /\ UNCHANGED <<cscheme, cng, psi0, psi, den, ssum>>
    /\ UNCHANGED notColl

\* the loop ends with the range exhausted
muscle_loop_end ==
    /\ cscheme = "muscle" /\ cpc = "loop" /\ ~(iscale < twofolds(cng))
    /\ cpc' = "clip"
    /\ UNCHANGED <<cscheme, cng, psi0, psi, den, cc, iscale, seen, ssum>>
    /\ UNCHANGED notColl

muscle_clip ==
    /\ cscheme = "muscle" /\ cpc = "clip"
    /\ psi' = Clip(psi, cc, cng)
    /\ cpc' = "shift"
    /\ UNCHANGED <<cscheme, cng, psi0, den, cc, iscale, seen, ssum>>
    /\ UNCHANGED notColl

muscle_shift ==
    /\ cscheme = "muscle" /\ cpc = "shift"
    /\ LET r == Shift(psi, cc, cng)
       IN  psi' = r.num /\ den' = r.den /\ ssum' = r.sum
    /\ cpc' = "done"
    /\ UNCHANGED <<cscheme, cng, psi0, cc, iscale, seen>>
    /\ UNCHANGED notColl

CollNext ==
    \/ sc_cc \/ sc_clip \/ sc_shift
    \/ muscle_cc \/ muscle_scale \/ muscle_loop_end \/ muscle_clip \/ muscle_shift

SpecCollapse == CollInit /\ [][CollNext]_vars

---------------------------------------------------------------------------
(* Claims about sc() and muscle() (under SpecCollapse) *)

\* the cells of the returned potential, and those the shift did not move
Returned == cpc = "done"
NonCollapsedCells == Wnc(cc, cng)

\* C1, as stated: every value of the potential returned by sc() and by
\* muscle(), after the clipping and after the shift, is >= -3.
C1_ReturnedAtLeastMinus3 ==
    Returned => \A x \in Cells(cng) : psi[x] >= Collapsed * den

\* C1, amended: every value is >= -3 after the clipping; the shift leaves the
\* collapsed cells at exactly -3 and every non-collapsed cell above
\* -3 - sum/len, so the returned potential is >= -3 everywhere when the sum
\* of the clipped field is <= 0.
C1_ClampBound ==
    /\ cpc = "shift" => \A x \in Cells(cng) : psi[x] >= Collapsed
    /\ Returned =>
         \A x \in Cells(cng) :
            /\ x \notin NonCollapsedCells => psi[x] = Collapsed * den
            /\ x \in NonCollapsedCells => psi[x] + ssum > Collapsed * den
            /\ ssum <= 0 => psi[x] >= Collapsed * den

\* muscle() returns a potential with collapsed and non-collapsed cells whose
\* clipped sum was negative
C1_Witness ==
    /\ Returned /\ cscheme = "muscle" /\ ssum < 0
    /\ NonCollapsedCells # {} /\ NonCollapsedCells # Cells(cng)
    /\ \E x \in NonCollapsedCells : psi[x] < 0

\* C2: after the clip and the shift, the mean of the returned potential over
\* the non-collapsed cells is zero, for every input with at least one
\* non-collapsed cell, collapsed cells or not.
C2_NonCollapsedMeanZero ==
    (Returned /\ NonCollapsedCells # {}) =>
        SumOver([x \in Cells(cng) |-> IF x \in NonCollapsedCells THEN psi[x] ELSE 0],
                cng) = 0

C10_ScaleLoop ==
    /\ [][(cscheme = "muscle" /\ cpc = "loop" /\ iscale' = iscale + 1) =>
            LET ccR == seen'[Len(seen')]
            IN  \A x \in Cells(cng) :
                   cc'[x] = IF ccR[x] <= 0 \/ cc[x] <= 0
                              THEN Min2(ccR[x], cc[x]) ELSE cc[x]]_vars
    /\ []((cscheme = "muscle" /\ cpc = "shift") =>
            \A x \in Cells(cng) :
               (psi[x] = Collapsed) <=>
                  \/ 3 * Unit + 2 * psi0[x] <= 0
                  \/ \E k \in 1..iscale : seen[k][x] <= 0)
    /\ []((cscheme = "muscle" /\ cpc \in {"loop", "clip", "shift", "done"}) =>
            /\ \A k \in 1..iscale : \E x \in Cells(cng) : seen[k][x] <= 0
            /\ Len(seen) \in {iscale, iscale + 1}
            /\ Pow2(iscale) <= cng)
    /\ []((cscheme = "muscle" /\ cpc \in {"clip", "shift", "done"}) =>
            \/ /\ Len(seen) = iscale + 1
               /\ \A x \in Cells(cng) : seen[Len(seen)][x] > 0
            \/ /\ Len(seen) = iscale
               /\ Pow2(iscale) <= cng /\ cng < Pow2(iscale + 1))

\* a cell whose unsmoothed condition is > 0 is clamped because a smoothed
\* condition collapsed it, in a run that took the minimum on a collapsed cell
C10_Witness ==
    /\ cscheme = "muscle" /\ cpc = "shift" /\ iscale >= 1
    /\ \E x \in Cells(cng) : 3 * Unit + 2 * psi0[x] > 0 /\ psi[x] = Collapsed
    /\ \E x \in Cells(cng) : 3 * Unit + 2 * psi0[x] <= 0 /\ cc[x] < 3 * Unit + 2 * psi0[x]
    /\ \E x \in Cells(cng) : 3 * Unit + 2 * psi0[x] <= 0 /\ cc[x] = 3 * Unit + 2 * psi0[x]
                              /\ \E k \in 1..iscale : seen[k][x] > 0

---------------------------------------------------------------------------
(* dk(): the primordial field and its Hermitian reflections                *)
(*                                                                         *)
(* A complex number is a record [re, im] of integers.  The random stream   *)
(* of N.random.RandomState(seed) is a fixed function of the seed and of    *)
(* the position in the flattened array; the phases exp(2j*pi*u) are drawn  *)
(* among the fourth roots of unity and the amplitudes among small Gaussian *)
(* integers, and sqrt(pk)/boxsize**1.5*ng**3 is a positive integer that    *)
(* depends on |k| alone.                                                   *)

Cx(a, b) == [re |-> a, im |-> b]
CZero == Cx(0, 0)
Conj(z) == Cx(z.re, -z.im)
CMul(z, w) == Cx(z.re * w.re - z.im * w.im, z.re * w.im + z.im * w.re)
CScale(a, z) == Cx(a * z.re, a * z.im)

thirdim(ng) == ng \div 2 + 1

\* the shape shc of the complex arrays
Idx(ng) == (0..(ng - 1)) \X (0..(ng - 1)) \X (0..(thirdim(ng) - 1))

\* the position of <<i, j, l>> in the flattened array
Flat(ix, ng) == (ix[1] * ng + ix[2]) * thirdim(ng) + ix[3]

\* getkgrid(): kx[N.where(kx > self.ng / 2)] -= self.ng, in units of kmin
Fold(i, ng) == IF 2 * i > ng THEN i - ng ELSE i

\* (k / kmin)**2
K2(ix, ng) ==
    Fold(ix[1], ng) * Fold(ix[1], ng) + Fold(ix[2], ng) * Fold(ix[2], ng)
      + Fold(ix[3], ng) * Fold(ix[3], ng)

\* the draw at position n of the stream salt of RandomState(sd)
Stream(sd, n, salt) == (sd * 31 + n * 17 + salt * 7 + sd * n + (n \div 3)) % 11

\* N.exp(2j * N.pi * r.uniform(0, 1, sh))
Phase(sd, n) ==
    LET q == Stream(sd, n, 0) % 4
    IN  CASE q = 0 -> Cx(1, 0) [] q = 1 -> Cx(0, 1)
          [] q = 2 -> Cx(-1, 0) [] OTHER -> Cx(0, -1)

\* amp: 1 with exact_pk, else a complex normal draw
Amp(sd, n, exact) ==
    IF exact THEN Cx(1, 0)
    ELSE Cx((Stream(sd, n, 1) % 5) - 2, (Stream(sd, n, 2) % 5) - 2)

\* N.sqrt(pk) / self.boxsize**1.5 * self.ng**3., a function of |k|
SqrtPk(k2) == 1 + (k2 % 3)

\* dk = amp * exp(...); dk *= sqrt(pk) / boxsize**1.5 * ng**3.
Drawn(sd, exact, ng) ==
    [ix \in Idx(ng) |->
        CScale(SqrtPk(K2(ix, ng)),
               CMul(Amp(sd, Flat(ix, ng), exact), Phase(sd, Flat(ix, ng))))]

\* A reflection: the elements it assigns, and for each the element whose
\* conjugate it receives.  a and b count along the two slices.

\* the mutant of BlockSource: the rows are flipped, the columns are not
BlockSourceNoFliplr(a, b, l, ng) ==
    <<1 + ((ng \div 2 - 1) - 1 - a), 1 + b, l>>

\* element (a, b) of N.fliplr(N.flipud(dk[1:ng // 2, 1:, l]))
BlockSource(a, b, l, ng) ==
    <<1 + ((ng \div 2 - 1) - 1 - a), 1 + ((ng - 1) - 1 - b), l>>

\* dk[ng // 2 + 1:, 1:, l] = N.conj(N.fliplr(N.flipud(dk[1:ng // 2, 1:, l])))
Block(l, ng) ==
    [t \in {<<ng \div 2 + 1 + a, 1 + b, l>> :
              a \in 0..(ng - (ng \div 2 + 1) - 1), b \in 0..(ng - 2)} |->
        BlockSource(t[1] - (ng \div 2 + 1), t[2] - 1, l, ng)]

\* dk[ng // 2 + 1:, 0, l] = N.conj(dk[ng // 2 - 1:0:-1, 0, l])
Col0(l, ng) ==
    [t \in {<<ng \div 2 + 1 + a, 0, l>> : a \in 0..(ng - (ng \div 2 + 1) - 1)} |->
        <<ng \div 2 - 1 - (t[1] - (ng \div 2 + 1)), 0, l>>]

\* dk[0, ng // 2 + 1:, l] = N.conj(dk[0, ng // 2 - 1:0:-1, l])
Row0(l, ng) ==
    [t \in {<<0, ng \div 2 + 1 + b, l>> : b \in 0..(ng - (ng \div 2 + 1) - 1)} |->
        <<0, ng \div 2 - 1 - (t[2] - (ng \div 2 + 1)), l>>]

\* dk[ng // 2, ng // 2 + 1:, l] = N.conj(dk[ng // 2, ng // 2 - 1:0:-1, l])
RowHalf(l, ng) ==
    [t \in {<<ng \div 2, ng \div 2 + 1 + b, l>> : b \in 0..(ng - (ng \div 2 + 1) - 1)} |->
        <<ng \div 2, ng \div 2 - 1 - (t[2] - (ng \div 2 + 1)), l>>]

\* the array f after one reflection: the right-hand side is evaluated
\* whole, then assigned
Reflected(f, src, ng) ==
    [ix \in Idx(ng) |-> IF ix \in DOMAIN src THEN Conj(f[src[ix]]) ELSE f[ix]]

\* the four reflections of the plane l, in the order of the code
PlaneReflected(f, l, ng) ==
    Reflected(Reflected(Reflected(Reflected(f, Block(l, ng), ng),
                                  Col0(l, ng), ng),
                        Row0(l, ng), ng),
              RowHalf(l, ng), ng)

\* the field dk() returns
DkReturned(sd, exact, ng) ==
    PlaneReflected(
        PlaneReflected([Drawn(sd, exact, ng) EXCEPT ![<<0, 0, 0>>] = CZero], 0, ng),
        ng \div 2, ng)

Reflect(src) ==
    /\ dkv' = Reflected(dkv, src, dkng)
    /\ stale' = (stale \/ \E t \in DOMAIN src : src[t] \in written)
    /\ written' = written \cup DOMAIN src

\* the plane of the reflections in progress: kz index 0, then ng // 2
Plane(p) == IF p \in {"block0", "col0", "row0", "half0"} THEN 0 ELSE dkng \div 2

DkInit ==
    /\ RunIdle /\ CollIdle /\ AlptIdle /\ InvIdle /\ PosIdle
    /\ seed \in 1..MaxSeed
    /\ exact_pk \in BOOLEAN
    /\ dkng \in GridSizes
    /\ dkv = [ix \in Idx(dkng) |-> CZero]
    /\ dpc = "draw"
    /\ written = {}
    /\ stale = FALSE

\* lines 334-353: the draws and the scaling by the power spectrum
dk_draw ==
    /\ dpc = "draw"
    /\ dkv' = Drawn(seed, exact_pk, dkng)
    /\ dpc' = "zero"
    /\ UNCHANGED <<seed, exact_pk, dkng, written, stale>>
    /\ UNCHANGED notDk

\* dk.flat[0] = 0; dk = N.reshape(dk, self.shc)
dk_zero ==
    /\ dpc = "zero"
    /\ dkv' = [dkv EXCEPT ![<<0, 0, 0>>] = CZero]
    /\ dpc' = "block0"
    /\ UNCHANGED <<seed, exact_pk, dkng, written, stale>>
    /\ UNCHANGED notDk

dk_block ==
    /\ dpc \in {"block0", "blockh"}
    /\ Reflect(Block(Plane(dpc), dkng))
    /\ dpc' = IF dpc = "block0" THEN "col0" ELSE "colh"
    /\ UNCHANGED <<seed, exact_pk, dkng>>
    /\ UNCHANGED notDk

dk_col0 ==
    /\ dpc \in {"col0", "colh"}
    /\ Reflect(Col0(Plane(dpc), dkng))
    /\ dpc' = IF dpc = "col0" THEN "row0" ELSE "rowh"
    /\ UNCHANGED <<seed, exact_pk, dkng>>
    /\ UNCHANGED notDk

dk_row0 ==
    /\ dpc \in {"row0", "rowh"}
    /\ Reflect(Row0(Plane(dpc), dkng))
    /\ dpc' = IF dpc = "row0" THEN "half0" ELSE "halfh"
    /\ UNCHANGED <<seed, exact_pk, dkng>>
    /\ UNCHANGED notDk

dk_rowhalf ==
    /\ dpc \in {"half0", "halfh"}
    /\ Reflect(RowHalf(Plane(dpc), dkng))
    /\ dpc' = IF dpc = "half0" THEN "blockh" ELSE "done"
    /\ UNCHANGED <<seed, exact_pk, dkng>>
    /\ UNCHANGED notDk

DkNext ==
    \/ dk_draw \/ dk_zero \/ dk_block \/ dk_col0 \/ dk_row0 \/ dk_rowhalf

SpecDk == DkInit /\ [][DkNext]_vars

---------------------------------------------------------------------------
(* Claims about dk() (under SpecDk) *)

Neg(i, ng) == (ng - i) % ng

\* C4: on the planes kz index 0 and ng/2 of the field dk() returns, every
\* element with i > ng/2, or with i in {0, ng/2} and j > ng/2, is the
\* conjugate of the element at (-i mod ng, -j mod ng); the element
\* (0, 0, 0) is zero; and no reflection reads an element that an earlier
\* one has overwritten.
C4_ReflectedHalfHermitian ==
    /\ dpc = "done" =>
         /\ \A ix \in Idx(dkng) :
               (/\ ix[3] \in {0, dkng \div 2}
                /\ \/ 2 * ix[1] > dkng
                   \/ ix[1] \in {0, dkng \div 2} /\ 2 * ix[2] > dkng)
               => dkv[ix] = Conj(dkv[<<Neg(ix[1], dkng), Neg(ix[2], dkng), ix[3]>>])
         /\ dkv[<<0, 0, 0>>] = CZero
    /\ ~stale

\* dk() has returned a field on a grid with negative frequencies whose
\* reflected elements are not real
C4_Witness ==
    /\ dpc = "done" /\ dkng >= 4 /\ ~exact_pk
    /\ \E ix \in written : dkv[ix].im # 0 /\ dkv[ix].re # 0

\* C5: the field dk() returns is Hermitian at every wavevector of the planes
\* kz index 0 and ng/2, the self-conjugate ones (i and j in {0, ng/2})
\* included, where the value is real.
C5_PlanesHermitian ==
    dpc = "done" =>
       \A ix \in Idx(dkng) :
          ix[3] \in {0, dkng \div 2}
          => dkv[ix] = Conj(dkv[<<Neg(ix[1], dkng), Neg(ix[2], dkng), ix[3]>>])

---------------------------------------------------------------------------
(* alpt(): the blending of the small- and large-scale potentials           *)
(*                                                                         *)
(* The Gaussian window is held in thousandths: GaussTable[x + 1] is        *)
(* exp(-x/2) rounded to 1/1000, and 0 beyond the table, as the float32     *)
(* exponential underflows to 0 for a large argument.  The transforms of    *)
(* sc(dk) / muscle(dk) and of twolpt(dk) are complex fields drawn from the *)
(* stream; the blending is what is computed here.                          *)

GaussTable ==
    <<1000, 607, 368, 223, 135, 82, 50, 30, 18, 11, 7, 4, 2, 2, 1, 1>>

\* the window value 1.
GOne == GaussTable[1]

\* N.exp(-x / 2.), in thousandths
ExpNegHalf(x) == IF x < Len(GaussTable) THEN GaussTable[x + 1] ELSE 0

\* gaussian = N.exp(-(self.sigmaalpt * self.k)**2 / 2.)
Gaussian(sigma, ix, ng) == ExpNegHalf(sigma * sigma * K2(ix, ng))

CAdd(z, w) == Cx(z.re + w.re, z.im + w.im)

\* a complex field drawn from the stream salt of the seed
DrawnField(sd, salt, ng) ==
    [ix \in Idx(ng) |->
        Cx((Stream(sd, Flat(ix, ng), salt) % 5) - 2,
           (Stream(sd, Flat(ix, ng), salt + 1) % 5) - 2)]

\* the mutant of Blend0: the two weights are exchanged
Blend0Exchanged(small, large, g) ==
    CAdd(CScale(g, small), CScale(GOne - g, large))

\* psi_k_small * (1. - gaussian) + psi_k_alpt[0] * gaussian, in thousandths
Blend0(small, large, g) ==
    CAdd(CScale(GOne - g, small), CScale(g, large))

\* psi_k_alpt[1] * gaussian, in thousandths
Blend1(second, g) == CScale(g, second)

AlptInit ==
    /\ RunIdle /\ CollIdle /\ DkIdle /\ InvIdle /\ PosIdle
    /\ acfg \in [smallscheme : {"sc", "muscle", "foo"}, sigmaalpt : 0..MaxSigma,
                 ng : GridSizes, growth : 1..MaxGrowth, seed : 1..MaxSeed]
    /\ psi_k_small = <<>>
    /\ psi_k_alpt = <<>>
    /\ apc = "small"

\* lines 541-551: the small-scale potential, or assert 0
alpt_small ==
    /\ apc = "small"
    /\ IF acfg.smallscheme \in {"sc", "muscle"}
         THEN /\ psi_k_small' =
                   DrawnField(acfg.seed, IF acfg.smallscheme = "sc" THEN 3 ELSE 5,
                              acfg.ng)
              /\ apc' = "large"
         ELSE /\ apc' = "failed"
              /\ UNCHANGED psi_k_small
    /\ UNCHANGED <<acfg, psi_k_alpt>>
    /\ UNCHANGED notAlpt

\* psi_k_alpt = [-self.growth * dk, N.fft.rfftn(self.twolpt(dk))]
alpt_large ==
    /\ apc = "large"
    /\ psi_k_alpt' =
         <<[ix \in Idx(acfg.ng) |->
               CScale(-acfg.growth, DkReturned(acfg.seed, TRUE, acfg.ng)[ix])],
           DrawnField(acfg.seed, 7, acfg.ng)>>
    /\ apc' = "blend"
    /\ UNCHANGED <<acfg, psi_k_small>>
    /\ UNCHANGED notAlpt

\* lines 558-562: the window and the two blended potentials
alpt_blend ==
    /\ apc = "blend"
    /\ psi_k_alpt' =
         <<[ix \in Idx(acfg.ng) |->
               Blend0(psi_k_small[ix], psi_k_alpt[1][ix],
                      Gaussian(acfg.sigmaalpt, ix, acfg.ng))],
           [ix \in Idx(acfg.ng) |->
               Blend1(psi_k_alpt[2][ix], Gaussian(acfg.sigmaalpt, ix, acfg.ng))]>>
    /\ apc' = "done"
    /\ UNCHANGED <<acfg, psi_k_small>>
    /\ UNCHANGED notAlpt

AlptNext == alpt_small \/ alpt_large \/ alpt_blend

SpecAlpt == AlptInit /\ [][AlptNext]_vars

---------------------------------------------------------------------------
(* Claims about alpt() (under SpecAlpt) *)

\* the large-scale first-order potential -growth * dk, in thousandths
LargeScale(ix) ==
    CScale(GOne, CScale(-acfg.growth, DkReturned(acfg.seed, TRUE, acfg.ng)[ix]))
\* the small-scale potential, in thousandths
SmallScale(ix) == CScale(GOne, psi_k_small[ix])

\* sigmaalpt so large that the window is 0 at the fundamental mode
SigmaUnbounded == ExpNegHalf(acfg.sigmaalpt * acfg.sigmaalpt) = 0

\* C3, as stated: for sigmaalpt -> 0 the blended first-order potential is
\* the small-scale potential at every wavevector, and for
\* sigmaalpt -> infinity it is -growth*dk at every non-zero wavevector.
C3_LimitsAsStated ==
    apc = "done" =>
       /\ acfg.sigmaalpt = 0 =>
             \A ix \in Idx(acfg.ng) : psi_k_alpt[1][ix] = SmallScale(ix)
       /\ SigmaUnbounded =>
             \A ix \in Idx(acfg.ng) \ {<<0, 0, 0>>} :
                psi_k_alpt[1][ix] = LargeScale(ix)

\* C3, amended: for sigmaalpt -> 0 the blended first-order potential is the
\* large-scale potential -growth*dk at every wavevector, and for
\* sigmaalpt -> infinity it is the small-scale potential at every non-zero
\* wavevector.
C3_AlptLimits ==
    apc = "done" =>
       /\ acfg.sigmaalpt = 0 =>
             \A ix \in Idx(acfg.ng) : psi_k_alpt[1][ix] = LargeScale(ix)
       /\ SigmaUnbounded =>
             \A ix \in Idx(acfg.ng) \ {<<0, 0, 0>>} :
                psi_k_alpt[1][ix] = SmallScale(ix)

\* alpt() has blended with sigmaalpt = 0 two potentials that differ
C3_Witness ==
    /\ apc = "done" /\ acfg.sigmaalpt = 0
    /\ \E ix \in Idx(acfg.ng) : SmallScale(ix) # LargeScale(ix)

---------------------------------------------------------------------------
(* invdiv(): the gradient components and the check before the transforms   *)
(*                                                                         *)
(* A float is [k |-> "fin", v |-> n] with |n| <= FMax, an infinity         *)
(* [k |-> "inf", v |-> sign] or [k |-> "nan", v |-> 0]; a finite result    *)
(* beyond FMax overflows to an infinity, as float32 does beyond its own    *)
(* range.  Wavenumbers are in units of kmin and cellsize**2 / 2 is 60, so  *)
(* that G is an integer on the grids drawn.                                *)

Fin(n) == [k |-> "fin", v |-> n]
PInf == [k |-> "inf", v |-> 1]
NInf == [k |-> "inf", v |-> -1]
NaN == [k |-> "nan", v |-> 0]

Sgn(n) == IF n > 0 THEN 1 ELSE IF n < 0 THEN -1 ELSE 0

\* a real result as a float
Overflowed(n) == IF n > FMax THEN PInf ELSE IF n < -FMax THEN NInf ELSE Fin(n)

IsZero(x) == x.k = "fin" /\ x.v = 0

FMul(x, y) ==
    IF x.k = "nan" \/ y.k = "nan" THEN NaN
    ELSE IF x.k = "inf" \/ y.k = "inf"
           THEN IF IsZero(x) \/ IsZero(y) THEN NaN
                ELSE [k |-> "inf", v |-> Sgn(x.v) * Sgn(y.v)]
           ELSE Overflowed(x.v * y.v)

FNeg(x) == IF x.k = "nan" THEN NaN ELSE [k |-> x.k, v |-> -x.v]

FAdd(x, y) ==
    IF x.k = "nan" \/ y.k = "nan" THEN NaN
    ELSE IF x.k = "inf" /\ y.k = "inf" THEN (IF x.v = y.v THEN x ELSE NaN)
    ELSE IF x.k = "inf" THEN x
    ELSE IF y.k = "inf" THEN y
    ELSE Overflowed(x.v + y.v)

FSub(x, y) == FAdd(x, FNeg(y))

\* the quotient of two finite floats
FDiv(x, y) ==
    IF y.v = 0 THEN (IF x.v = 0 THEN NaN ELSE [k |-> "inf", v |-> Sgn(x.v)])
    ELSE Overflowed(Sgn(x.v) * Sgn(y.v)
                      * ((x.v * Sgn(x.v)) \div (y.v * Sgn(y.v))))

\* the product of two complex arrays' elements, as numpy computes it
FCMul(z, w) ==
    Cx(FSub(FMul(z.re, w.re), FMul(z.im, w.im)),
       FAdd(FMul(z.re, w.im), FMul(z.im, w.re)))

\* a real array's element in a product with a complex one
FReal(x) == Cx(x, Fin(0))

\* N.isnan of a complex element
IsNan(z) == z.re.k = "nan" \/ z.im.k = "nan"
\* N.isfinite of a complex element
IsFinite(z) == z.re.k = "fin" /\ z.im.k = "fin"

\* 2 * N.cos(k_axis * self.cellsize) for the index i of the axis: the angle
\* is 2*pi*i/ng, a multiple of 30 degrees on the grids drawn
Cos2(i, ng) ==
    LET a == ((i * 12) \div ng) % 12
    IN  CASE a = 0 -> 2
          [] a \in {1, 11} -> 2
          [] a \in {2, 10} -> 1
          [] a \in {3, 9} -> 0
          [] a \in {4, 8} -> -1
          [] a \in {5, 7} -> -2
          [] OTHER -> -2

\* self.cellsize**2. / 2., doubled to go with Cos2
HalfCellsize2 == Fin(120)

\* G = self.cellsize**2. / 2. / (N.cos(kx * cellsize) + N.cos(ky * cellsize)
\*       + N.cos(kz * cellsize) - 3.)
Green(ix, ng) ==
    FDiv(HalfCellsize2,
         Fin(Cos2(ix[1], ng) + Cos2(ix[2], ng) + Cos2(ix[3], ng) - 6))

\* 1j * k_axis * G * psi_k, evaluated from the left
Gradient(kaxis, g, src) ==
    FCMul(FCMul(FCMul(Cx(Fin(0), Fin(1)), FReal(Fin(kaxis))), FReal(g)), src)

\* the values drawn for the one element of the source that is not 1 + 1j
SourceVals ==
    {Cx(Fin(2), Fin(-3)), Cx(Fin(FMax), Fin(0)), Cx(Fin(0), Fin(-FMax)),
     Cx(PInf, Fin(0)), Cx(Fin(1), NInf), Cx(NaN, Fin(0)), Cx(Fin(0), NaN)}

InvInit ==
    /\ RunIdle /\ CollIdle /\ DkIdle /\ AlptIdle /\ PosIdle
    /\ ing \in GridSizes
    /\ \E at \in Idx(ing), z \in SourceVals :
          psi_k = [ix \in Idx(ing) |-> IF ix = at THEN z ELSE Cx(Fin(1), Fin(1))]
    /\ G = <<>>
    /\ phic = <<>>
    /\ ipc = "green"

\* lines 219-221: G, and G.flat[0] = 0
invdiv_green ==
    /\ ipc = "green"
    /\ G' = [ix \in Idx(ing) |->
               IF ix = <<0, 0, 0>> THEN Fin(0) ELSE Green(ix, ing)]
    /\ ipc' = "gradient"
    /\ UNCHANGED <<ing, psi_k, phic>>
    /\ UNCHANGED notInv

\* lines 223-225: phixc, phiyc, phizc
invdiv_gradient ==
    /\ ipc = "gradient"
    /\ phic' = [axis \in 1..3 |->
                  [ix \in Idx(ing) |->
                     Gradient(Fold(ix[axis], ing), G[ix], psi_k[ix])]]
    /\ ipc' = "check"
    /\ UNCHANGED <<ing, psi_k, G>>
    /\ UNCHANGED notInv

\* if N.isnan(phixc).any(): print(...); assert 0
invdiv_check ==
    /\ ipc = "check"
    /\ ipc' = IF \E ix \in Idx(ing) : IsNan(phic[1][ix]) THEN "failed" ELSE "ifft"
    /\ UNCHANGED <<ing, psi_k, G, phic>>
    /\ UNCHANGED notInv

\* lines 232-236: the three backward transforms, and the return
invdiv_ifft ==
    /\ ipc = "ifft"
    /\ ipc' = "returned"
    /\ UNCHANGED <<ing, psi_k, G, phic>>
    /\ UNCHANGED notInv

InvNext == invdiv_green \/ invdiv_gradient \/ invdiv_check \/ invdiv_ifft

SpecInvdiv == InvInit /\ [][InvNext]_vars

---------------------------------------------------------------------------
(* Claims about invdiv() (under SpecInvdiv) *)

\* C7: if any value of any of the three gradient components is not finite,
\* invdiv() aborts and returns no displacement field; it returns one only
\* when the three components are entirely finite.
C7_NonFiniteAborts ==
    /\ ipc = "returned" =>
         \A axis \in 1..3 : \A ix \in Idx(ing) : IsFinite(phic[axis][ix])
    /\ (ipc \in {"ifft", "returned", "failed"}
        /\ \E axis \in 1..3 : \E ix \in Idx(ing) : ~IsFinite(phic[axis][ix]))
       => ipc = "failed"

---------------------------------------------------------------------------
(* get_pos(): the lattice, the displacement and the wrap, along one axis   *)
(*                                                                         *)
(* A float32 is an integer here, rounded to nearest, ties to even, to      *)
(* Mantissa significant bits.                                              *)

\* the float nearest to the real n
Rounded(n) ==
    LET m == IF n < 0 THEN -n ELSE n
        e == FloorLog2(m)
    IN  IF e < Mantissa THEN n
        ELSE LET s == Pow2(e - Mantissa + 1)
                 q == m \div s
                 r == m % s
                 up == 2 * r > s \/ (2 * r = s /\ q % 2 = 1)
             IN  Sgn(n) * (IF up THEN (q + 1) * s ELSE q * s)

\* C's fmod: the sign of the dividend
FMod(x, b) == IF x < 0 THEN -((-x) % b) ELSE x % b

\* numpy's float remainder: mod = fmod(a, b); if mod and the signs differ,
\* mod += b
Remainder(x, b) ==
    LET m == FMod(x, b)
    IN  IF m # 0 /\ ((b < 0) # (m < 0)) THEN Rounded(m + b) ELSE m

\* self.boxsize
BoxSize == 64

\* self.cellsize = boxsize / float(ng)
cellsize(ng) == Rounded(BoxSize \div ng)

\* the floats a displacement is drawn from
DispVals == {Rounded(d) : d \in (-MaxDisp)..MaxDisp}

PosInit ==
    /\ RunIdle /\ CollIdle /\ DkIdle /\ AlptIdle /\ InvIdle
    /\ png \in GridSizes
    /\ \E at \in 0..(png - 1), d \in DispVals :
          disp = [i \in 0..(png - 1) |-> IF i = at THEN d ELSE 0]
    /\ apos = <<>>
    /\ ppc = "grid"

\* a = self.cellsize * a, on N.mgrid
get_pos_grid ==
    /\ ppc = "grid"
    /\ apos' = [i \in 0..(png - 1) |-> Rounded(cellsize(png) * i)]
    /\ ppc' = "add"
    /\ UNCHANGED <<png, disp>>
    /\ UNCHANGED notPos

\* a += xp
get_pos_add ==
    /\ ppc = "add"
    /\ apos' = [i \in 0..(png - 1) |-> Rounded(apos[i] + disp[i])]
    /\ ppc' = "wrap"
    /\ UNCHANGED <<png, disp>>
    /\ UNCHANGED notPos

\* a = a % self.boxsize
get_pos_wrap ==
    /\ ppc = "wrap"
    /\ apos' = [i \in 0..(png - 1) |-> Remainder(apos[i], BoxSize)]
    /\ ppc' = "done"
    /\ UNCHANGED <<png, disp>>
    /\ UNCHANGED notPos

PosNext == get_pos_grid \/ get_pos_add \/ get_pos_wrap

SpecPos == PosInit /\ [][PosNext]_vars

---------------------------------------------------------------------------
(* Claims about get_pos() (under SpecPos) *)

\* the coordinate get_pos() returns for the lattice index i displaced by d
PosOf(i, d, ng) ==
    Remainder(Rounded(Rounded(cellsize(ng) * i) + d), BoxSize)

\* the sum of the lattice coordinate of i and of d is a float: a += xp
\* does not round
ExactSum(i, d, ng) ==
    Rounded(Rounded(cellsize(ng) * i) + d) = Rounded(cellsize(ng) * i) + d

\* C8: every coordinate get_pos() returns lies in [0, boxsize), and adding
\* exactly one boxsize to a displacement leaves the coordinate unchanged
\* (compared where the displacement plus boxsize is a float and neither sum
\* a += xp rounds).
C8_Periodic ==
    ppc = "done" =>
       \A i \in 0..(png - 1) :
          /\ 0 <= apos[i] /\ apos[i] < BoxSize
          /\ (/\ Rounded(disp[i] + BoxSize) = disp[i] + BoxSize
              /\ ExactSum(i, disp[i], png)
              /\ ExactSum(i, disp[i] + BoxSize, png))
             => PosOf(i, disp[i] + BoxSize, png) = apos[i]

---------------------------------------------------------------------------
(* Claims about __init__ and generate() (under Spec) *)

\* the configurations C6 is about
InvalidScheme(c) ==
    \/ c.scheme \notin {"zeld", "2lpt", "sc", "muscle"}
    \/ c.smallscheme # None /\ c.smallscheme \notin {"sc", "muscle"}

\* C6: with a main scheme that is not zeld, 2lpt, sc or muscle (a
\* small-scale scheme set or not), or a small-scale scheme set to something
\* other than sc or muscle, construction or generate() fails, before any
\* Fourier transform is executed.
C6_InvalidSchemeFailsBeforeFft ==
    InvalidScheme(cfg) => (nfft = 0 /\ pc # "done")

\* C9: with makeic set and z_pk different from redshift the constructor
\* fails with the configuration error of that check, before the frequency
\* grid or the cosmology snapshot is computed; with makeic unset, or z_pk
\* equal to redshift, the check raises nothing.
C9_MakeicRedshiftCheck ==
    /\ (cfg.makeic /\ cfg.z_pk # cfg.redshift) =>
          /\ pc \in {"init_makeic", "failed"}
          /\ pc = "failed" => err = IcError
          /\ ~kgrid /\ ~cosmo /\ nfft = 0
    /\ ~(cfg.makeic /\ cfg.z_pk # cfg.redshift) => err # IcError

\* the constructor has raised the error of the makeic check
C9_Witness ==
    /\ pc = "failed" /\ err = IcError
    /\ cfg.makeic /\ cfg.z_pk # cfg.redshift

---------------------------------------------------------------------------

Init == RunInit
Next == RunNext
Spec == Init /\ [][Next]_vars

===========================================================================
